---- MODULE Spec2Model ----
\* A model of the stylesheet theme-merge engine of the clyro CLI
\* (packages/cli/src/utils/theme-injector.ts) and of the init command that
\* calls it (commands/init.ts, preflights/preflight-init.ts).
\*
\* Text is a sequence of one-character strings; indices are 1-based, and an
\* index of 0 stands for JavaScript's -1 ("not found").  A VariableMap (a
\* JavaScript object with string keys) is a sequence of <<key, value>> pairs
\* in property order.
EXTENDS Integers, Sequences, FiniteSets, TLC

VARIABLES
    disk,           \* the file system: path -> text, for the paths that exist
    pc,             \* position of the injectclyroTheme invocation
    runs,           \* invocations started so far
    cssContent,     \* local: the text read from the file
    importLines,    \* local: STEP 1
    workingContent, \* local: the leftover user text after STEP 5
    pieces,         \* local: the four blocks of STEP 6, in array order
    finalCss,       \* local: STEP 7
    log,            \* logger calls, in order
    ioTrace,        \* file-system calls made on the target, in order
    call,           \* a call of one of the pure helpers: function and arguments
    ret,            \* its return value, or Pending
    other,          \* a second invocation of injectclyroTheme on the same path
    cmd             \* the init command: its position, options and preflight result

vars == <<disk, pc, runs, cssContent, importLines, workingContent, pieces,
          finalCss, log, ioTrace, call, ret, other, cmd>>

\* the path handed to injectclyroTheme
CssPath == "src/index.css"

EmptyDisk == [p \in {} |-> <<>>]
DiskWith(text) == [p \in {CssPath} |-> text]

\* fs.existsSync(path)
existsSync(path) == path \in DOMAIN disk

Pending == [done |-> FALSE]
Returned(v) == [done |-> TRUE, value |-> v]
NoCall == [fn |-> "none"]
NoInvocation == [pc |-> "none"]
NoCommand == [at |-> "none"]

\* fs.writeFile(path, text) resolved: the file at path holds text, the other
\* files are as they were
writeFile(fs, path, text) ==
    [p \in DOMAIN fs \cup {path} |-> IF p = path THEN text ELSE fs[p]]

-----------------------------------------------------------------------------
\* Characters

NL == "\n"
CR == "\r"

\* ECMAScript LineTerminator (what '.' refuses and what '^'/'$' anchor on
\* under the m flag), restricted to the characters of the model.
IsLineTerminator(c) == c \in {NL, CR}

\* ECMAScript WhiteSpace + LineTerminator: what \s matches and trim() removes.
IsSpace(c) == c \in {" ", "\t", NL, CR}

\* \w
WordChars ==
    {"a", "b", "c", "d", "e", "f", "g", "h", "i", "j", "k", "l", "m", "n", "o",
     "p", "q", "r", "s", "t", "u", "v", "w", "x", "y", "z",
     "A", "B", "C", "D", "E", "F", "G", "H", "I", "J", "K", "L", "M", "N", "O",
     "P", "Q", "R", "S", "T", "U", "V", "W", "X", "Y", "Z",
     "0", "1", "2", "3", "4", "5", "6", "7", "8", "9", "_"}

-----------------------------------------------------------------------------
\* String primitives of the runtime

Min(S) == CHOOSE x \in S : \A y \in S : x <= y
Max(S) == 0 - Min({0 - x : x \in S})

\* s.slice(i-1, j) in 1-based inclusive form
Slice(s, i, j) == SubSeq(s, i, j)

Tail_(s, i) == SubSeq(s, i, Len(s))

\* s.indexOf(pat, from-1) + 1
indexOf(s, pat, from) ==
    LET m == Len(pat)
        hits == {i \in from..(Len(s) - m + 1) :
                    \A k \in 1..m : s[i + k - 1] = pat[k]}
    IN  IF hits = {} THEN 0 ELSE Min(hits)

startsWith(s, pat) ==
    Len(s) >= Len(pat) /\ SubSeq(s, 1, Len(pat)) = pat

\* s.trim()
trim(s) ==
    LET keep == {i \in 1..Len(s) : ~IsSpace(s[i])}
    IN  IF keep = {} THEN <<>> ELSE SubSeq(s, Min(keep), Max(keep))

\* s.split("\n")
RECURSIVE split(_)
split(s) ==
    LET i == indexOf(s, <<NL>>, 1)
    IN  IF i = 0 THEN <<s>>
        ELSE <<SubSeq(s, 1, i - 1)>> \o split(Tail_(s, i + 1))

\* parts.join(sep)
RECURSIVE join(_, _)
join(parts, sep) ==
    IF parts = <<>> THEN <<>>
    ELSE IF Len(parts) = 1 THEN parts[1]
    ELSE parts[1] \o sep \o join(Tail(parts), sep)

\* arr.filter(Boolean) on an array of strings: the empty string is falsy
RECURSIVE filterBoolean(_)
filterBoolean(parts) ==
    IF parts = <<>> THEN <<>>
    ELSE IF parts[1] = <<>> THEN filterBoolean(Tail(parts))
    ELSE <<parts[1]>> \o filterBoolean(Tail(parts))

\* arr.includes(x)
includes(arr, x) == \E i \in 1..Len(arr) : arr[i] = x

\* s.replace(pat, "") with a string pattern: the first occurrence only; the
\* empty pattern matches at the start and removes nothing.
replaceFirst(s, pat) ==
    LET i == indexOf(s, pat, 1)
    IN  IF i = 0 THEN s
        ELSE SubSeq(s, 1, i - 1) \o Tail_(s, i + Len(pat))

-----------------------------------------------------------------------------
\* JavaScript objects with string keys, as sequences of <<key, value>>

HasKey(m, k) == \E i \in 1..Len(m) : m[i][1] = k
Get(m, k) == m[CHOOSE i \in 1..Len(m) : m[i][1] = k][2]
Keys(m) == [i \in 1..Len(m) |-> m[i][1]]
KeySet(m) == {m[i][1] : i \in 1..Len(m)}

\* obj[k] = v: an existing property keeps its position, a new one is appended
Put(m, k, v) ==
    IF HasKey(m, k)
    THEN [i \in 1..Len(m) |-> IF m[i][1] = k THEN <<k, v>> ELSE m[i]]
    ELSE Append(m, <<k, v>>)

\* { ...target, ...source } continued from an object under construction
RECURSIVE spreadInto(_, _)
spreadInto(target, source) ==
    IF source = <<>> THEN target
    ELSE spreadInto(Put(target, source[1][1], source[1][2]), Tail(source))

-----------------------------------------------------------------------------
\* extractVars (theme-injector.ts 17-27)

\* line.replace(/\/\*.*?\*\//g, ""): every comment that opens and closes on
\* the line, found left to right; the result is not scanned again.
CommentCloseAfter(s, i) ==
    LET ends == {j \in (i + 2)..(Len(s) - 1) :
                    /\ s[j] = "*" /\ s[j + 1] = "/"
                    /\ \A k \in (i + 2)..(j - 1) : ~IsLineTerminator(s[k])}
    IN  IF ends = {} THEN 0 ELSE Min(ends)

RECURSIVE stripComments(_)
stripComments(s) ==
    LET opens == {i \in 1..(Len(s) - 3) :
                     /\ s[i] = "/" /\ s[i + 1] = "*"
                     /\ CommentCloseAfter(s, i) # 0}
    IN  IF opens = {} THEN s
        ELSE LET i == Min(opens)
                 j == CommentCloseAfter(s, i)
             IN  SubSeq(s, 1, i - 1) \o stripComments(Tail_(s, j + 2))

\* line.match(/^--([\w-]+):\s*(.+);$/): <<name, value>> of the groups, or
\* <<>> when the line does not match.  The name is the run of word characters
\* and hyphens after "--" and must be followed by ':'; the line must end in
\* ';'; between them \s* takes the leading white space and (.+) at least one
\* character, none of them a line terminator.
\* [\w-]
IsNameChar(c) == c = "-" \/ c \in WordChars

NameEnd(line) ==
    LET stops == {i \in 3..Len(line) : ~IsNameChar(line[i])}
    IN  IF stops = {} THEN Len(line) + 1 ELSE Min(stops)

matchDeclaration(line) ==
    LET n == Len(line)
        c == NameEnd(line)
        \* where (.+) may start: after white space only, and from there to
        \* the final ';' no line terminator
        starts == {k \in (c + 1)..(n - 1) :
                      /\ \A j \in (c + 1)..(k - 1) : IsSpace(line[j])
                      /\ \A j \in k..(n - 1) : ~IsLineTerminator(line[j])}
    IN  IF /\ n >= 5
           /\ line[1] = "-" /\ line[2] = "-"
           /\ c >= 4 /\ c <= n /\ line[c] = ":"
           /\ line[n] = ";"
           /\ starts # {}
        THEN <<SubSeq(line, 3, c - 1), SubSeq(line, Max(starts), n - 1)>>
        ELSE <<>>

RECURSIVE extractVarsLines(_, _)
extractVarsLines(lines, vars_) ==
    IF lines = <<>> THEN vars_
    ELSE LET line == stripComments(trim(lines[1]))
             m == matchDeclaration(line)
         IN  extractVarsLines(Tail(lines),
                 IF m = <<>> THEN vars_
                 ELSE Put(vars_, <<"-", "-">> \o m[1], trim(m[2])))

extractVars(block) == extractVarsLines(split(block), <<>>)

-----------------------------------------------------------------------------
\* buildBlock (theme-injector.ts 30-35)

\* a variant of buildLine that leaves out the terminating ';'
buildLineNoSemicolon(entry) == <<" ", " ">> \o entry[1] \o <<":", " ">> \o entry[2]

\* line 32
buildLine(entry) == <<" ", " ">> \o entry[1] \o <<":", " ">> \o entry[2] \o <<";">>

buildBlock(selector, vars_) ==
    LET body == join([i \in 1..Len(vars_) |-> buildLine(vars_[i])], <<NL>>)
    IN  selector \o <<" ", "{", NL>> \o body \o <<NL, "}">>

-----------------------------------------------------------------------------
\* extractBlock (theme-injector.ts 38-55)

\* the while loop of lines 48-52: the value of i when it exits
RECURSIVE braceScan(_, _, _)
braceScan(content, i, braceCount) ==
    IF i <= Len(content) /\ braceCount > 0
    THEN braceScan(content, i + 1,
             IF content[i] = "{" THEN braceCount + 1
             ELSE IF content[i] = "}" THEN braceCount - 1
             ELSE braceCount)
    ELSE i

extractBlock(content, keyword) ==
    LET startIdx == indexOf(content, keyword, 1)
        openIdx == indexOf(content, <<"{">>, startIdx)
    IN  IF startIdx = 0 THEN <<>>
        ELSE IF openIdx = 0 THEN <<>>
        ELSE Slice(content, startIdx, braceScan(content, openIdx + 1, 1) - 1)

-----------------------------------------------------------------------------
\* The regular expressions of lines 7-9

NoMatch == [start |-> 0, open |-> 0, close |-> 0]

\* content.match(/<selector>\s*\{([\s\S]*?)\}/m): the leftmost occurrence of
\* the selector that is followed by white space and '{' and has a '}' after
\* it; the lazy group ends at the first '}'.
BraceAfter(content, p, selector) ==
    LET rest == {q \in (p + Len(selector))..Len(content) : ~IsSpace(content[q])}
    IN  IF rest # {} /\ content[Min(rest)] = "{" THEN Min(rest) ELSE 0

FirstClose(content, o) ==
    LET closes == {c \in (o + 1)..Len(content) : content[c] = "}"}
    IN  IF closes = {} THEN 0 ELSE Min(closes)

matchBlockRegex(content, selector) ==
    LET m == Len(selector)
        cands == {p \in 1..(Len(content) - m + 1) :
                     /\ \A k \in 1..m : content[p + k - 1] = selector[k]
                     /\ BraceAfter(content, p, selector) # 0
                     /\ FirstClose(content, BraceAfter(content, p, selector)) # 0}
    IN  IF cands = {} THEN NoMatch
        ELSE LET p == Min(cands)
                 o == BraceAfter(content, p, selector)
             IN  [start |-> p, open |-> o, close |-> FirstClose(content, o)]

\* (content.match(REGEX) || [])[1] || ""
regexGroup1(content, selector) ==
    LET m == matchBlockRegex(content, selector)
    IN  IF m = NoMatch THEN <<>> ELSE SubSeq(content, m.open + 1, m.close - 1)

\* content.replace(REGEX, ""): no g flag, the first match only
regexRemove(content, selector) ==
    LET m == matchBlockRegex(content, selector)
    IN  IF m = NoMatch THEN content
        ELSE SubSeq(content, 1, m.start - 1) \o Tail_(content, m.close + 1)

ROOT_SELECTOR == <<":", "r", "o", "o", "t">>
DARK_SELECTOR == <<".", "d", "a", "r", "k">>
IMPORT_KEYWORD == <<"@", "i", "m", "p", "o", "r", "t">>

\* IMPORT_REGEX = /^@import\s+.*?;$/gm at position p: the index of the ';'
\* that ends the match, or 0.  '^' needs p to start a line; \s+ may run over
\* line ends; '.' may not, and '$' needs the ';' to be the last character of
\* its line.
importMatchEnd(content, p) ==
    LET n == Len(content)
        k == Len(IMPORT_KEYWORD)
        rest == {q \in (p + k + 1)..n : ~IsSpace(content[q])}
        q == Min(rest)
        eols == {e \in q..n : e = n \/ IsLineTerminator(content[e + 1])}
        e == Min(eols)
    IN  IF /\ (p = 1 \/ IsLineTerminator(content[p - 1]))
           /\ p + k <= n
           /\ \A j \in 1..k : content[p + j - 1] = IMPORT_KEYWORD[j]
           /\ IsSpace(content[p + k])
           /\ rest # {}
           /\ content[e] = ";"
        THEN e ELSE 0

\* content.replace(IMPORT_REGEX, ""), resumed at index from
RECURSIVE removeImports(_, _)
removeImports(content, from) ==
    LET hits == {p \in from..Len(content) : importMatchEnd(content, p) # 0}
    IN  IF hits = {} THEN Tail_(content, from)
        ELSE LET p == Min(hits)
             IN  SubSeq(content, from, p - 1)
                     \o removeImports(content, importMatchEnd(content, p) + 1)

-----------------------------------------------------------------------------
\* Constants of the engine

\* REQUIRED_IMPORTS (theme-injector.ts 11-14)
REQUIRED_TAILWIND ==
    <<"@", "i", "m", "p", "o", "r", "t", " ", "\"", "t", "a", "i", "l",
      "w", "i", "n", "d", "c", "s", "s", "\"", ";">>

REQUIRED_ANIMATE ==
    <<"@", "i", "m", "p", "o", "r", "t", " ", "\"", "t", "w", "-", "a",
      "n", "i", "m", "a", "t", "e", "-", "c", "s", "s", "\"", ";">>

REQUIRED_IMPORTS == <<REQUIRED_TAILWIND, REQUIRED_ANIMATE>>

THEME_INLINE_KEYWORD ==
    <<"@", "t", "h", "e", "m", "e", " ", "i", "n", "l", "i", "n", "e">>

LAYER_BASE_KEYWORD ==
    <<"@", "l", "a", "y", "e", "r", " ", "b", "a", "s", "e">>

\* clyro_REACT_THEME_BLOCK (constants/theme-template.ts): a stylesheet with
\* one mapping block, one :root block, one .dark block and one base-layer
\* block that holds a nested rule.
clyro_REACT_THEME_BLOCK ==
    <<"@", "t", "h", "e", "m", "e", " ", "i", "n", "l", "i", "n", "e", " ",
      "{", "\n", " ", " ", "-", "-", "x", ":", " ", "y", ";", "\n", "}",
      "\n", "\n", ":", "r", "o", "o", "t", " ", "{", "\n", " ", " ", "-",
      "-", "a", ":", " ", "1", ";", "\n", " ", " ", "-", "-", "c", ":",
      " ", "3", ";", "\n", "}", "\n", "\n", ".", "d", "a", "r", "k", " ",
      "{", "\n", " ", " ", "-", "-", "a", ":", " ", "2", ";", "\n", "}",
      "\n", "\n", "@", "l", "a", "y", "e", "r", " ", "b", "a", "s", "e",
      " ", "{", "\n", " ", " ", "p", " ", "{", "\n", " ", " ", "}", "\n",
      "}", "\n">>

-----------------------------------------------------------------------------
\* injectclyroTheme, STEP 1 to STEP 7 (theme-injector.ts 70-151)

\* lines 75-80: the trimmed text of every line that starts with "@import"
RECURSIVE captureImports(_)
captureImports(lines) ==
    IF lines = <<>> THEN <<>>
    ELSE IF startsWith(trim(lines[1]), IMPORT_KEYWORD)
    THEN <<trim(lines[1])>> \o captureImports(Tail(lines))
    ELSE captureImports(Tail(lines))

\* a variant of addRequired that appends every required import unconditionally
addRequiredAlways(lines, required) == lines \o required

\* lines 83-87
RECURSIVE addRequired(_, _)
addRequired(lines, required) ==
    IF required = <<>> THEN lines
    ELSE addRequired(IF includes(lines, required[1]) THEN lines
                     ELSE Append(lines, required[1]),
                     Tail(required))

collectImports(content) == addRequired(captureImports(split(content)), REQUIRED_IMPORTS)

\* line 90
stripImports(content) == trim(removeImports(content, 1))

\* getCoreSection (lines 57-60)
getCoreSection(keyword) == extractBlock(clyro_REACT_THEME_BLOCK, keyword)

\* lines 93-98 and 104-109
blockVars(content, selector) == extractVars(regexGroup1(content, selector))

\* a variant of mergeVars that only overrides the properties the template has
RECURSIVE overrideKnown(_, _)
overrideKnown(target, source) ==
    IF source = <<>> THEN target
    ELSE overrideKnown(IF HasKey(target, source[1][1])
                       THEN Put(target, source[1][1], source[1][2])
                       ELSE target,
                       Tail(source))
mergeVarsKnownOnly(core, user) == overrideKnown(spreadInto(<<>>, core), user)

\* a variant of mergeVars that spreads the user's properties first
mergeVarsUserFirst(core, user) ==
    spreadInto(spreadInto(spreadInto(<<>>, user), core), user)

\* lines 112-113: { ...core, ...user }
mergeVars(core, user) == spreadInto(spreadInto(<<>>, core), user)

\* lines 93-98
coreRootVars == blockVars(clyro_REACT_THEME_BLOCK, ROOT_SELECTOR)
coreDarkVars == blockVars(clyro_REACT_THEME_BLOCK, DARK_SELECTOR)

\* lines 100-101
coreThemeInline == getCoreSection(THEME_INLINE_KEYWORD)
coreLayerBase == getCoreSection(LAYER_BASE_KEYWORD)

\* lines 104-109
userRootVars(working) == blockVars(working, ROOT_SELECTOR)
userDarkVars(working) == blockVars(working, DARK_SELECTOR)

\* lines 112-113
mergedRootVars(working) == mergeVars(coreRootVars, userRootVars(working))
mergedDarkVars(working) == mergeVars(coreDarkVars, userDarkVars(working))

\* lines 115-116
mergedRootBlock(working) == buildBlock(ROOT_SELECTOR, mergedRootVars(working))
mergedDarkBlock(working) == buildBlock(DARK_SELECTOR, mergedDarkVars(working))

\* lines 119-124; both extractBlock arguments read the text of before the
\* assignment
stripOld(working) ==
    trim(replaceFirst(
             replaceFirst(
                 regexRemove(regexRemove(working, ROOT_SELECTOR), DARK_SELECTOR),
                 extractBlock(working, THEME_INLINE_KEYWORD)),
             extractBlock(working, LAYER_BASE_KEYWORD)))

\* a variant of composePieces that keeps the user's base-layer block when the
\* working text has one
composePiecesKeepUserLayer(working) ==
    <<coreThemeInline, mergedRootBlock(working), mergedDarkBlock(working),
      IF extractBlock(working, LAYER_BASE_KEYWORD) = <<>> THEN coreLayerBase
      ELSE extractBlock(working, LAYER_BASE_KEYWORD)>>

\* lines 127-135, the array without its "" entries
composePieces(working) ==
    <<coreThemeInline, mergedRootBlock(working), mergedDarkBlock(working), coreLayerBase>>

BlankLine == <<NL, NL>>

\* a variant of clyroBlock that puts both template blocks first
clyroBlockTemplateFirst(ps) ==
    join(filterBoolean(<<ps[1], <<>>, ps[4], <<>>, ps[2], <<>>, ps[3]>>), BlankLine)

\* lines 127-137
clyroBlock(ps) ==
    join(filterBoolean(<<ps[1], <<>>, ps[2], <<>>, ps[3], <<>>, ps[4]>>), BlankLine)

\* a variant of composeFinal that puts the leftover text before the blocks
composeFinalLeftoverFirst(imports, ps, leftover) ==
    join(filterBoolean(<<join(imports, <<NL>>), <<>>, leftover, <<>>, clyroBlock(ps)>>),
         BlankLine)

\* lines 141-151
composeFinal(imports, ps, leftover) ==
    join(filterBoolean(<<join(imports, <<NL>>), <<>>, clyroBlock(ps), <<>>, leftover>>),
         BlankLine)

\* line 153: the text handed to writeFile
fileText(css) == trim(css) \o <<NL>>

-----------------------------------------------------------------------------
\* The user's stylesheets of the model: up to MaxFrags fragments in a row

MaxFrags == 2
MaxRuns == 2

\* a line of white space before what follows
FragIndent == <<" ">>

\* import lines
FragImportTailwind ==
    <<"@", "i", "m", "p", "o", "r", "t", " ", "\"", "t", "a", "i", "l",
      "w", "i", "n", "d", "c", "s", "s", "\"", ";", "\n">>

FragImportX ==
    <<"@", "i", "m", "p", "o", "r", "t", " ", "\"", "x", "\"", ";", "\n">>

\* a rule of the user's own
FragRule ==
    <<"p", " ", "{", "\n", "}", "\n">>

\* a :root block that overrides --a and adds --b, and a .dark block
FragRoot ==
    <<":", "r", "o", "o", "t", " ", "{", "\n", " ", " ", "-", "-", "b",
      ":", " ", "6", ";", "\n", " ", " ", "-", "-", "a", ":", " ", "5",
      ";", "\n", "}", "\n">>

FragDark ==
    <<".", "d", "a", "r", "k", " ", "{", "\n", " ", " ", "-", "-", "a",
      ":", " ", "7", ";", "\n", "}", "\n">>

\* the opening of a base-layer block, and a closing brace
FragLayer ==
    <<"@", "l", "a", "y", "e", "r", " ", "b", "a", "s", "e", " ", "{",
      "\n">>

FragClose ==
    <<"}", "\n">>

Fragments ==
    {FragIndent, FragImportTailwind, FragImportX, FragRule, FragRoot, FragDark,
     FragLayer, FragClose}

RECURSIVE Concat(_)
Concat(parts) == IF parts = <<>> THEN <<>> ELSE parts[1] \o Concat(Tail(parts))

UserFiles ==
    UNION {{Concat(fs) : fs \in [1..n -> Fragments]} : n \in 0..MaxFrags}

\* Stylesheets with text of the user's own inside a managed block: a block
\* opener, a body and a closing brace

\* the opening of a mapping block
FragTheme ==
    <<"@", "t", "h", "e", "m", "e", " ", "i", "n", "l", "i", "n", "e", " ",
      "{", "\n">>

\* a declaration line
FragDecl ==
    <<" ", " ", "-", "-", "x", ":", " ", "z", ";", "\n">>

\* a :root block with a nested rule before its declaration
FragRootNested ==
    <<":", "r", "o", "o", "t", " ", "{", "\n", " ", " ", "p", " ", "{", "\n",
      " ", " ", "}", "\n", " ", " ", "-", "-", "b", ":", " ", "6", ";", "\n",
      "}", "\n">>

\* a :root block with a value that spells the base-layer keyword
FragRootKeyword ==
    <<":", "r", "o", "o", "t", " ", "{", "\n", " ", " ", "-", "-", "a", ":",
      " ", "@", "l", "a", "y", "e", "r", " ", "b", "a", "s", "e", ";", "\n",
      "}", "\n">>

BlockOpeners == {FragTheme, FragLayer}
BlockBodies == {FragDecl, FragRule, FragRoot, FragDark, FragRootNested, FragRootKeyword}

NestedFiles ==
    {open \o body \o FragClose : open \in BlockOpeners, body \in BlockBodies}
        \cup {FragRootNested, FragRootKeyword}

-----------------------------------------------------------------------------
\* injectclyroTheme as a process: one action per stretch between awaits

NoLocals ==
    /\ cssContent' = <<>>
    /\ importLines' = <<>>
    /\ workingContent' = <<>>
    /\ pieces' = <<>>
    /\ finalCss' = <<>>

engineVars == <<disk, pc, runs, cssContent, importLines, workingContent, pieces,
                finalCss, log, ioTrace, other, cmd>>

\* no invocation has started
Idle ==
    /\ pc = "idle"
    /\ runs = 0
    /\ cssContent = <<>>
    /\ importLines = <<>>
    /\ workingContent = <<>>
    /\ pieces = <<>>
    /\ finalCss = <<>>
    /\ log = <<>>
    /\ ioTrace = <<>>
    /\ other = NoInvocation
    /\ cmd = NoCommand

Init ==
    /\ disk \in {DiskWith(t) : t \in UserFiles \cup NestedFiles} \cup {EmptyDisk}
    /\ Idle
    /\ call = NoCall
    /\ ret = Pending

\* a variant of InvokeMissing that does not return early
InvokeMissingFallThrough ==
    /\ pc \in {"idle", "returned"}
    /\ runs < MaxRuns
    /\ ~existsSync(CssPath)
    /\ runs' = runs + 1
    /\ ioTrace' = Append(ioTrace, [op |-> "existsSync", data |-> <<>>])
    /\ pc' = "reading"
    /\ NoLocals
    /\ UNCHANGED <<disk, log, call, ret, other, cmd>>

\* lines 62-66: the file is missing
InvokeMissing ==
    /\ pc \in {"idle", "returned"}
    /\ runs < MaxRuns
    /\ ~existsSync(CssPath)
    /\ runs' = runs + 1
    /\ ioTrace' = Append(ioTrace, [op |-> "existsSync", data |-> <<>>])
    /\ log' = Append(log, "warn")
    /\ pc' = "returned"
    /\ NoLocals
    /\ UNCHANGED <<disk, call, ret, other, cmd>>

\* lines 62-68: the file exists, readFile is awaited
InvokeExisting ==
    /\ pc \in {"idle", "returned"}
    /\ runs < MaxRuns
    /\ existsSync(CssPath)
    /\ runs' = runs + 1
    /\ ioTrace' = Append(ioTrace, [op |-> "existsSync", data |-> <<>>])
    /\ pc' = "reading"
    /\ NoLocals
    /\ UNCHANGED <<disk, log, call, ret, other, cmd>>

\* lines 68-153: readFile resolves, STEP 1 to STEP 7 run, writeFile is awaited
ReadDone ==
    /\ pc = "reading"
    /\ existsSync(CssPath)
    /\ LET content == disk[CssPath]
           working == stripImports(content)
           imports == collectImports(content)
           ps == composePieces(working)
           leftover == stripOld(working)
       IN  /\ cssContent' = content
           /\ importLines' = imports
           /\ pieces' = ps
           /\ workingContent' = leftover
           /\ finalCss' = composeFinal(imports, ps, leftover)
    /\ ioTrace' = Append(ioTrace, [op |-> "readFile", data |-> disk[CssPath]])
    /\ pc' = "writing"
    /\ UNCHANGED <<disk, runs, log, call, ret, other, cmd>>

\* lines 153-156: writeFile resolves
WriteDone ==
    /\ pc = "writing"
    /\ disk' = writeFile(disk, CssPath, fileText(finalCss))
    /\ ioTrace' = Append(ioTrace, [op |-> "writeFile", data |-> fileText(finalCss)])
    /\ log' = Append(log, "info")
    /\ pc' = "returned"
    /\ UNCHANGED <<runs, cssContent, importLines, workingContent, pieces, finalCss,
                   call, ret, other, cmd>>

Next ==
    \/ InvokeMissing
    \/ InvokeExisting
    \/ ReadDone
    \/ WriteDone

Spec == Init /\ [][Next]_vars

-----------------------------------------------------------------------------
\* The variable merge of STEP 4 on its own: any template map, any user map

MaxVars == 2

KeyA == <<"-", "-", "a">>
KeyB == <<"-", "-", "b">>
KeyC == <<"-", "-", "c">>

MergeKeys == {KeyA, KeyB, KeyC}
MergeValues == {<<"1">>, <<"2">>}

DistinctKeys(m) == \A i, j \in 1..Len(m) : m[i][1] = m[j][1] => i = j

\* the objects with at most MaxVars properties
MapsOver(keys, values) ==
    UNION {{m \in [1..n -> keys \X values] : DistinctKeys(m)} : n \in 0..MaxVars}

InitMerge ==
    /\ disk = EmptyDisk
    /\ Idle
    /\ \E core \in MapsOver(MergeKeys, MergeValues) :
       \E user \in MapsOver(MergeKeys, MergeValues) :
           call = [fn |-> "mergeVars", core |-> core, user |-> user]
    /\ ret = Pending

\* lines 112 and 115
CallMergeVars ==
    /\ call.fn = "mergeVars"
    /\ ret = Pending
    /\ LET merged == mergeVars(call.core, call.user)
       IN  ret' = Returned([merged |-> merged, block |-> buildBlock(ROOT_SELECTOR, merged)])
    /\ UNCHANGED <<engineVars, call>>

NextMerge == CallMergeVars

SpecMerge == InitMerge /\ [][NextMerge]_vars

-----------------------------------------------------------------------------
\* buildBlock followed by extractVars: any selector, any map

RtKeyDashed ==
    <<"-", "-", "b", "-", "1">>
RtKeyDotted ==
    <<"-", "-", "a", ".", "b">>

RtKeys == {KeyA, RtKeyDashed, RtKeyDotted}

RtValues ==
    {<<"1">>,
     <<"1", " ", "2">>,
     <<"a", ";", "b">>,
     <<" ", "1">>,
     <<"/", "*", "*", "/", "1">>,
     <<"1", NL, "2">>}

RtSelectors == {ROOT_SELECTOR, <<"-", "-", "z", ":", " ", "0", ";", NL, "s">>}

InitRoundTrip ==
    /\ disk = EmptyDisk
    /\ Idle
    /\ \E selector \in RtSelectors :
       \E m \in MapsOver(RtKeys, RtValues) :
           call = [fn |-> "roundTrip", selector |-> selector, vars |-> m]
    /\ ret = Pending

\* extractVars(buildBlock(selector, vars))
CallRoundTrip ==
    /\ call.fn = "roundTrip"
    /\ ret = Pending
    /\ ret' = Returned(extractVars(buildBlock(call.selector, call.vars)))
    /\ UNCHANGED <<engineVars, call>>

NextRoundTrip == CallRoundTrip

SpecRoundTrip == InitRoundTrip /\ [][NextRoundTrip]_vars

-----------------------------------------------------------------------------
\* extractBlock step by step: any text, any keyword

MaxLen == 6

BlockAlphabet == {"a", "b", "{", "}"}
BlockKeywords == {<<"a">>, <<"a", "b">>}

BlockTexts == UNION {[1..n -> BlockAlphabet] : n \in 0..MaxLen}

InitBlock ==
    /\ disk = EmptyDisk
    /\ Idle
    /\ \E content \in BlockTexts :
       \E keyword \in BlockKeywords :
           call = [fn |-> "extractBlock", content |-> content, keyword |-> keyword,
                   at |-> "entry", startIdx |-> 0, i |-> 0, braceCount |-> 0]
    /\ ret = Pending

\* lines 39-40
BlockNoKeyword ==
    /\ call.fn = "extractBlock"
    /\ call.at = "entry"
    /\ indexOf(call.content, call.keyword, 1) = 0
    /\ call' = [call EXCEPT !.at = "exit"]
    /\ ret' = Returned(<<>>)
    /\ UNCHANGED engineVars

\* lines 39-43
BlockNoBrace ==
    /\ call.fn = "extractBlock"
    /\ call.at = "entry"
    /\ LET startIdx == indexOf(call.content, call.keyword, 1)
       IN  /\ startIdx # 0
           /\ indexOf(call.content, <<"{">>, startIdx) = 0
           /\ call' = [call EXCEPT !.at = "exit", !.startIdx = startIdx]
    /\ ret' = Returned(<<>>)
    /\ UNCHANGED engineVars

\* lines 39-46
BlockOpen ==
    /\ call.fn = "extractBlock"
    /\ call.at = "entry"
    /\ LET startIdx == indexOf(call.content, call.keyword, 1)
           openIdx == indexOf(call.content, <<"{">>, startIdx)
       IN  /\ startIdx # 0
           /\ openIdx # 0
           /\ call' = [call EXCEPT !.at = "loop", !.startIdx = startIdx,
                                   !.i = openIdx + 1, !.braceCount = 1]
    /\ UNCHANGED <<engineVars, ret>>

\* a variant of BlockStep that does not count nested opening braces
BlockStepFlat ==
    /\ call.fn = "extractBlock"
    /\ call.at = "loop"
    /\ call.i <= Len(call.content) /\ call.braceCount > 0
    /\ call' = [call EXCEPT
                   !.braceCount = IF call.content[call.i] = "}" THEN @ - 1 ELSE @,
                   !.i = @ + 1]
    /\ UNCHANGED <<engineVars, ret>>

\* lines 48-52: one iteration
BlockStep ==
    /\ call.fn = "extractBlock"
    /\ call.at = "loop"
    /\ call.i <= Len(call.content) /\ call.braceCount > 0
    /\ call' = [call EXCEPT
                   !.braceCount = IF call.content[call.i] = "{" THEN @ + 1
                                  ELSE IF call.content[call.i] = "}" THEN @ - 1
                                  ELSE @,
                   !.i = @ + 1]
    /\ UNCHANGED <<engineVars, ret>>

\* a variant of BlockReturn that gives up on a block that is not closed
BlockReturnClosedOnly ==
    /\ call.fn = "extractBlock"
    /\ call.at = "loop"
    /\ ~(call.i <= Len(call.content) /\ call.braceCount > 0)
    /\ call' = [call EXCEPT !.at = "exit"]
    /\ ret' = Returned(IF call.braceCount > 0 THEN <<>>
                       ELSE Slice(call.content, call.startIdx, call.i - 1))
    /\ UNCHANGED engineVars

\* lines 48 and 54: the loop is left
BlockReturn ==
    /\ call.fn = "extractBlock"
    /\ call.at = "loop"
    /\ ~(call.i <= Len(call.content) /\ call.braceCount > 0)
    /\ call' = [call EXCEPT !.at = "exit"]
    /\ ret' = Returned(Slice(call.content, call.startIdx, call.i - 1))
    /\ UNCHANGED engineVars

NextBlock ==
    \/ BlockNoKeyword
    \/ BlockNoBrace
    \/ BlockOpen
    \/ BlockStep
    \/ BlockReturn

SpecBlock == InitBlock /\ [][NextBlock]_vars

\* the call is a single synchronous run: it is never suspended
SpecBlockFair == SpecBlock /\ WF_vars(NextBlock)

-----------------------------------------------------------------------------
\* Properties of the variable merge

MergeDone == call.fn = "mergeVars" /\ ret.done

\* C2: the merged map has the keys of the template map and of the user map and
\* no others; a key of the user map has the user's value, any other key the
\* template's
C2_MergeKeysAndPrecedence ==
    MergeDone =>
        LET m == ret.value.merged
        IN  /\ DistinctKeys(m)
            /\ KeySet(m) = KeySet(call.core) \cup KeySet(call.user)
            /\ \A k \in KeySet(call.user) : Get(m, k) = Get(call.user, k)
            /\ \A k \in KeySet(call.core) \ KeySet(call.user) :
                   Get(m, k) = Get(call.core, k)

C2_Witness ==
    /\ MergeDone
    /\ \E k \in KeySet(call.core) \cap KeySet(call.user) :
           Get(call.core, k) # Get(call.user, k)
    /\ KeySet(call.core) \ KeySet(call.user) # {}
    /\ KeySet(call.user) \ KeySet(call.core) # {}

UserOnlyKey(k) == ~HasKey(call.core, k)

\* the template's keys in template order, then the user-only keys in the
\* user's order
ExpectedKeys == Keys(call.core) \o SelectSeq(Keys(call.user), UserOnlyKey)

\* C3: the merged map, and the lines of the block built from it, have the
\* template keys first in template order and then the user-only keys in the
\* order of the user map
C3_MergeOrder ==
    MergeDone =>
        LET m == ret.value.merged
            ls == split(ret.value.block)
        IN  /\ Keys(m) = ExpectedKeys
            /\ Len(ls) >= Len(m) + 2
            /\ \A i \in 1..Len(m) :
                   startsWith(ls[i + 1], <<" ", " ">> \o ExpectedKeys[i] \o <<":">>)

C3_Witness ==
    /\ MergeDone
    /\ Len(call.core) = 2
    /\ Len(call.user) = 2
    /\ UserOnlyKey(call.user[1][1])
    /\ call.user[2][1] = call.core[1][1]

-----------------------------------------------------------------------------
\* Properties of buildBlock followed by extractVars

RoundTripDone == call.fn = "roundTrip" /\ ret.done

\* C4 as claimed: any map with non-empty keys and values comes back
C4_RoundTripAnyMap ==
    RoundTripDone => ret.value = call.vars

\* "--" and then one or more word characters or hyphens
IsPropertyName(k) ==
    /\ Len(k) >= 3
    /\ k[1] = "-" /\ k[2] = "-"
    /\ \A i \in 3..Len(k) : IsNameChar(k[i])

HasComment(v) ==
    \E i \in 1..Len(v) : \E j \in (i + 2)..(Len(v) - 1) :
        /\ v[i] = "/" /\ v[i + 1] = "*"
        /\ v[j] = "*" /\ v[j + 1] = "/"

\* non-empty, on one line, no white space at either end, no comment
IsPlainValue(v) ==
    /\ v # <<>>
    /\ ~IsSpace(v[1]) /\ ~IsSpace(v[Len(v)])
    /\ \A i \in 1..Len(v) : ~IsLineTerminator(v[i])
    /\ ~HasComment(v)

PlainMap(m) ==
    \A i \in 1..Len(m) : IsPropertyName(m[i][1]) /\ IsPlainValue(m[i][2])

OneLine(t) == \A i \in 1..Len(t) : t[i] # NL

\* C4 amended: a map of custom properties with plain values comes back, under
\* a selector of one line
C4_RoundTripPlainMap ==
    RoundTripDone /\ PlainMap(call.vars) /\ OneLine(call.selector) =>
        ret.value = call.vars

C4_Witness ==
    /\ RoundTripDone
    /\ PlainMap(call.vars)
    /\ OneLine(call.selector)
    /\ Len(call.vars) = 2
    /\ \E i \in 1..2 : call.vars[i][2] = <<"a", ";", "b">>
    /\ ret.value = call.vars

-----------------------------------------------------------------------------
\* Properties of extractBlock

BlockDone == call.fn = "extractBlock" /\ ret.done

Occurs(text, pat, p) ==
    /\ p + Len(pat) - 1 <= Len(text)
    /\ SubSeq(text, p, p + Len(pat) - 1) = pat

\* the first occurrence of pat in text at or after from, or 0
FirstOccurrence(text, pat, from) ==
    IF \E p \in from..Len(text) : Occurs(text, pat, p)
    THEN CHOOSE p \in from..Len(text) :
             /\ Occurs(text, pat, p)
             /\ \A q \in from..(p - 1) : ~Occurs(text, pat, q)
    ELSE 0

KeywordAt == FirstOccurrence(call.content, call.keyword, 1)
BraceAt == IF KeywordAt = 0 THEN 0 ELSE FirstOccurrence(call.content, <<"{">>, KeywordAt)

Count(text, c, from, to) == Cardinality({x \in from..to : text[x] = c})

\* the depth after the character at j: 1 for the opening brace, +1 for each
\* '{' and -1 for each '}' after it
DepthAt(j) ==
    1 + Count(call.content, "{", BraceAt + 1, j) - Count(call.content, "}", BraceAt + 1, j)

\* the closing braces behind the opening one at which the depth is 0 and was
\* not 0 before
Closers ==
    {j \in (BraceAt + 1)..Len(call.content) :
        /\ call.content[j] = "}"
        /\ DepthAt(j) = 0
        /\ \A x \in (BraceAt + 1)..(j - 1) : DepthAt(x) > 0}

\* C8: the result is empty without the keyword or without a '{' behind it;
\* else it runs from the keyword through the '}' that brings the depth to 0
C8_ExtractBlockResult ==
    BlockDone =>
        /\ (KeywordAt = 0 \/ BraceAt = 0) => ret.value = <<>>
        /\ (BraceAt # 0 /\ Closers # {}) =>
               ret.value = SubSeq(call.content, KeywordAt, Min(Closers))
        /\ ret.value = extractBlock(call.content, call.keyword)

C8_Witness ==
    /\ BlockDone
    /\ KeywordAt > 0
    /\ \E j \in Closers : DepthAt(j - 2) = 2 /\ j < Len(call.content)
    /\ ret.value = <<"a", "{", "{", "}", "}">>

\* C9: with the keyword and a '{' found and the depth never back at 0, the
\* call returns the text from the keyword to the end; every call returns
C9_UnbalancedBlock ==
    /\ [](BlockDone /\ BraceAt # 0 /\ Closers = {} =>
              ret.value = SubSeq(call.content, KeywordAt, Len(call.content)))
    /\ <>(ret.done)

C9_Witness ==
    /\ BlockDone
    /\ BraceAt # 0
    /\ Closers = {}
    /\ DepthAt(Len(call.content)) = 2
    /\ KeywordAt > 1
    /\ ret.value = SubSeq(call.content, KeywordAt, Len(call.content))

-----------------------------------------------------------------------------
\* Properties of injectclyroTheme

IsWrite(e) == e.op = "writeFile"
IsRead(e) == e.op = "readFile"

\* the contents handed to writeFile so far, in order
Writes == SelectSeq(ioTrace, IsWrite)

\* C1: merging the file a merge wrote writes the same bytes again
C1_Idempotent ==
    \A i \in 1..(Len(Writes) - 1) : Writes[i + 1].data = Writes[i].data

\* the trimmed text of the lines of the file read that start with "@import",
\* in encounter order
TrimmedLines(content) ==
    LET ls == split(content)
    IN  [i \in 1..Len(ls) |-> trim(ls[i])]
IsImportLine(line) == startsWith(line, IMPORT_KEYWORD)
CapturedImports == SelectSeq(TrimmedLines(cssContent), IsImportLine)

NotCaptured(req) == \A i \in 1..Len(CapturedImports) : CapturedImports[i] # req

\* C5: no import statement is written twice
C5_ImportsWrittenOnce ==
    pc \in {"writing", "returned"} =>
        \A i, j \in 1..Len(importLines) :
            importLines[i] = importLines[j] => i = j

\* C6: every required import is in the list; the list is the captured user
\* imports in encounter order followed by the required imports that no
\* captured line equals
C6_RequiredImports ==
    pc = "writing" =>
        /\ \A r \in 1..Len(REQUIRED_IMPORTS) : includes(importLines, REQUIRED_IMPORTS[r])
        /\ importLines = CapturedImports \o SelectSeq(REQUIRED_IMPORTS, NotCaptured)

C6_Witness ==
    /\ pc = "writing"
    /\ Len(CapturedImports) = 2
    /\ ~NotCaptured(REQUIRED_TAILWIND)
    /\ NotCaptured(REQUIRED_ANIMATE)
    /\ Len(importLines) = 3

\* C7: an invocation on a missing file logs a warning and returns; it makes
\* no readFile and no writeFile call and leaves the file system as it was
C7_MissingFile ==
    [][(~existsSync(CssPath) /\ runs' = runs + 1) =>
          /\ pc' = "returned"
          /\ log' = Append(log, "warn")
          /\ ioTrace' = Append(ioTrace, [op |-> "existsSync", data |-> <<>>])
          /\ disk' = disk]_vars

C7_Witness ==
    /\ ~existsSync(CssPath)
    /\ runs = 1
    /\ pc = "returned"
    /\ log = <<"warn">>

\* the non-empty pieces in order, one blank line between neighbours
RECURSIVE Stack(_, _)
Stack(acc, ps) ==
    IF ps = <<>> THEN acc
    ELSE Stack(IF ps[1] = <<>> THEN acc
               ELSE IF acc = <<>> THEN ps[1]
               ELSE acc \o <<NL, NL>> \o ps[1],
               Tail(ps))

RECURSIVE Lines(_)
Lines(ls) == IF ls = <<>> THEN <<>>
             ELSE IF Len(ls) = 1 THEN ls[1]
             ELSE ls[1] \o <<NL>> \o Lines(Tail(ls))

\* C10: the text written is the import lines, the template's @theme inline
\* block, the merged :root block, the merged .dark block, the template's
\* @layer base block and the leftover text, in this order
C10_CompositionOrder ==
    pc = "returned" /\ Len(Writes) > 0 =>
        /\ startsWith(pieces[1], THEME_INLINE_KEYWORD)
        /\ startsWith(pieces[2], ROOT_SELECTOR)
        /\ startsWith(pieces[3], DARK_SELECTOR)
        /\ startsWith(pieces[4], LAYER_BASE_KEYWORD)
        /\ Writes[Len(Writes)].data =
               Stack(<<>>, <<Lines(importLines), pieces[1], pieces[2], pieces[3],
                             pieces[4], workingContent>>) \o <<NL>>

C10_Witness ==
    /\ pc = "returned"
    /\ Len(Writes) = 1
    /\ workingContent # <<>>
    /\ Len(importLines) = 3

-----------------------------------------------------------------------------
\* Properties of the text injectclyroTheme composes

\* the merge has run and its result is about to be written
Composed == pc = "writing"

\* the text handed to writeFile
Output == fileText(finalCss)

\* the working text of STEP 1, before STEP 5 strips it
Working == stripImports(cssContent)

Contains(text, pat) == indexOf(text, pat, 1) # 0

\* the block of the template that starts at the keyword
TemplateBlock(keyword) == extractBlock(clyro_REACT_THEME_BLOCK, keyword)

\* C11 as claimed: for any user text, the output holds both template blocks
\* verbatim, and the first @theme inline block and the first @layer base block
\* of the output are the template's
C11_WholesaleAnyText ==
    Composed =>
        /\ Contains(Output, TemplateBlock(THEME_INLINE_KEYWORD))
        /\ Contains(Output, TemplateBlock(LAYER_BASE_KEYWORD))
        /\ extractBlock(Output, THEME_INLINE_KEYWORD) = TemplateBlock(THEME_INLINE_KEYWORD)
        /\ extractBlock(Output, LAYER_BASE_KEYWORD) = TemplateBlock(LAYER_BASE_KEYWORD)

\* the keyword is spelled in an import line or in a declaration of the merged
\* :root or .dark block
SpelledBeforeTemplate(keyword) ==
    \/ \E i \in 1..Len(importLines) : Contains(importLines[i], keyword)
    \/ Contains(pieces[2], keyword)
    \/ Contains(pieces[3], keyword)

\* C11 amended: the output holds both template blocks verbatim, and for a
\* keyword that no import line and no custom-property value of the user
\* spells, the first block of the output at that keyword is the template's
C11_Wholesale ==
    Composed =>
        /\ Contains(Output, TemplateBlock(THEME_INLINE_KEYWORD))
        /\ Contains(Output, TemplateBlock(LAYER_BASE_KEYWORD))
        /\ \A keyword \in {THEME_INLINE_KEYWORD, LAYER_BASE_KEYWORD} :
               ~SpelledBeforeTemplate(keyword) =>
                   extractBlock(Output, keyword) = TemplateBlock(keyword)

\* the user's file has a base-layer block with text of its own, which is not
\* in the output's first base-layer block
C11_Witness ==
    /\ Composed
    /\ extractBlock(cssContent, LAYER_BASE_KEYWORD) \notin {<<>>, TemplateBlock(LAYER_BASE_KEYWORD)}
    /\ Contains(cssContent, FragRule)
    /\ ~SpelledBeforeTemplate(LAYER_BASE_KEYWORD)
    /\ extractBlock(Output, LAYER_BASE_KEYWORD) = TemplateBlock(LAYER_BASE_KEYWORD)

\* where a piece starts and ends in the output; the leftover text is the end
\* of the output
PosOf(piece) == indexOf(Output, piece, 1)
EndOf(piece) == PosOf(piece) + Len(piece) - 1
LeftoverPos == Len(Output) - Len(workingContent)

Precedes(a, b) == PosOf(a) > 0 /\ PosOf(b) > 0 /\ EndOf(a) < PosOf(b)

ImportsFirst == startsWith(Output, Lines(importLines))

LeftoverLast ==
    /\ LeftoverPos > 0
    /\ SubSeq(Output, LeftoverPos, Len(Output) - 1) = workingContent

\* C12 as claimed: the imports, then both template blocks, then the merged
\* :root block, then the merged .dark block, then the leftover text
C12_LayoutTemplateBlocksFirst ==
    Composed =>
        /\ ImportsFirst
        /\ Len(Lines(importLines)) < PosOf(pieces[1])
        /\ Len(Lines(importLines)) < PosOf(pieces[4])
        /\ Precedes(pieces[1], pieces[2])
        /\ Precedes(pieces[4], pieces[2])
        /\ Precedes(pieces[2], pieces[3])
        /\ LeftoverLast
        /\ EndOf(pieces[3]) < LeftoverPos

\* C12 amended: the imports, then the template's mapping block, then the
\* merged :root block, then the merged .dark block, then the template's
\* base-layer block, then the leftover text
C12_Layout ==
    Composed =>
        /\ ImportsFirst
        /\ Len(Lines(importLines)) < PosOf(pieces[1])
        /\ Precedes(pieces[1], pieces[2])
        /\ Precedes(pieces[2], pieces[3])
        /\ Precedes(pieces[3], pieces[4])
        /\ LeftoverLast
        /\ EndOf(pieces[4]) < LeftoverPos

C12_Witness ==
    /\ Composed
    /\ Len(importLines) = 2
    /\ workingContent = Slice(FragRule, 1, Len(FragRule) - 1)
    /\ Contains(pieces[2], KeyB)
    /\ Precedes(pieces[3], pieces[4])

ManagedKeywords == {ROOT_SELECTOR, DARK_SELECTOR, THEME_INLINE_KEYWORD, LAYER_BASE_KEYWORD}

\* the number of blocks of a kind in text: the places where the keyword is
\* followed by white space and an opening brace
BlockCount(text, keyword) ==
    Cardinality({p \in 1..Len(text) :
                    Occurs(text, keyword, p) /\ BraceAfter(text, p, keyword) # 0})

\* C13: the leftover text holds none of the blocks extractBlock finds in the
\* working text for the four keywords, and a file with at most one block of
\* each kind gives an output with exactly one block of each kind
C13_StaleSectionsStripped ==
    Composed =>
        /\ \A keyword \in ManagedKeywords :
               extractBlock(Working, keyword) # <<>> =>
                   ~Contains(workingContent, extractBlock(Working, keyword))
        /\ (\A keyword \in ManagedKeywords : BlockCount(cssContent, keyword) <= 1) =>
               \A keyword \in ManagedKeywords : BlockCount(Output, keyword) = 1

\* C14: no line of the leftover text is an import line, so every captured
\* line has been removed from the working text
C14_CapturedImportsRemoved ==
    Composed =>
        \A i \in 1..Len(TrimmedLines(workingContent)) :
            ~IsImportLine(TrimmedLines(workingContent)[i])

\* C15: the merged blocks are built from the variables of the blocks that
\* extractBlock returns for ':root' and '.dark' in the working text
C15_UserVarsFromExtractBlock ==
    Composed =>
        /\ pieces[2] = buildBlock(ROOT_SELECTOR,
                           mergeVars(coreRootVars, extractVars(extractBlock(Working, ROOT_SELECTOR))))
        /\ pieces[3] = buildBlock(DARK_SELECTOR,
                           mergeVars(coreDarkVars, extractVars(extractBlock(Working, DARK_SELECTOR))))

-----------------------------------------------------------------------------
\* extractVars on its own: any block body of up to MaxLines lines

MaxLines == 2

LinePlain ==
    <<"-", "-", "a", ":", " ", "1", ";">>
LineIndented ==
    <<" ", " ", "-", "-", "b", ":", " ", "2", ";">>
LineCommentAfter ==
    <<"-", "-", "a", ":", " ", "3", ";", " ", "/", "*", " ", "c", " ", "*", "/">>
LineCommentBefore ==
    <<"/", "*", " ", "c", " ", "*", "/", " ", "-", "-", "b", ":", " ", "4", ";">>
LineCommentInside ==
    <<"-", "-", "c", ":", " ", "/", "*", " ", "c", " ", "*", "/", " ", "5", ";">>
LineRule ==
    <<"p", " ", "{">>
LineSpaceBeforeEnd ==
    <<"-", "-", "a", ":", " ", "6", " ", ";">>
LineCommentedOut ==
    <<"/", "*", " ", "-", "-", "a", ":", " ", "7", ";", " ", "*", "/">>
LineCommentOpen ==
    <<"-", "-", "b", ":", " ", "8", ";", " ", "/", "*", " ", "x">>
LineEmpty == <<>>

BodyLineSet ==
    {LinePlain, LineIndented, LineCommentAfter, LineCommentBefore, LineCommentInside,
     LineRule, LineSpaceBeforeEnd, LineCommentedOut, LineCommentOpen, LineEmpty}

BlockBodyTexts ==
    UNION {{join(ls, <<NL>>) : ls \in [1..n -> BodyLineSet]} : n \in 0..MaxLines}

InitVars ==
    /\ disk = EmptyDisk
    /\ Idle
    /\ \E block \in BlockBodyTexts : call = [fn |-> "extractVars", block |-> block]
    /\ ret = Pending

\* lines 17-27
CallExtractVars ==
    /\ call.fn = "extractVars"
    /\ ret = Pending
    /\ ret' = Returned(extractVars(call.block))
    /\ UNCHANGED <<engineVars, call>>

NextVars == CallExtractVars

SpecVars == InitVars /\ [][NextVars]_vars

VarsDone == call.fn = "extractVars" /\ ret.done

BodyLines == split(call.block)

\* the declaration a line holds once its comments are stripped and the rest is
\* trimmed: <<name, value>>, or <<>>
Declared(line) == matchDeclaration(trim(stripComments(line)))

\* no later line declares the name that line i declares
LastOfName(i) ==
    \A j \in (i + 1)..Len(BodyLines) :
        \/ Declared(BodyLines[j]) = <<>>
        \/ Declared(BodyLines[j])[1] # Declared(BodyLines[i])[1]

\* C16: a single-line declaration with an inline comment before it or after it
\* is in the map with its trimmed value, the last declaration of a name winning
C16_CommentTolerant ==
    VarsDone =>
        \A i \in 1..Len(BodyLines) :
            Declared(BodyLines[i]) # <<>> =>
                LET name == <<"-", "-">> \o Declared(BodyLines[i])[1]
                IN  /\ HasKey(ret.value, name)
                    /\ LastOfName(i) =>
                           Get(ret.value, name) = trim(Declared(BodyLines[i])[2])

-----------------------------------------------------------------------------
\* injectclyroTheme with a file system that can fail: readFile and writeFile
\* may reject, and the function has no try/catch, so the rejection is the
\* rejection of its own promise

\* line 68: readFile rejects
ReadFail ==
    /\ pc = "reading"
    /\ ioTrace' = Append(ioTrace, [op |-> "readFile", data |-> <<>>, error |-> TRUE])
    /\ pc' = "threw"
    /\ UNCHANGED <<disk, runs, cssContent, importLines, workingContent, pieces,
                   finalCss, log, call, ret, other, cmd>>

\* a variant of WriteFail that calls writeFile again after a rejection
WriteFailRetry ==
    /\ pc = "writing"
    /\ ioTrace' = Append(ioTrace, [op |-> "writeFile", data |-> fileText(finalCss),
                                   error |-> TRUE])
    /\ pc' = "writing"
    /\ UNCHANGED <<disk, runs, cssContent, importLines, workingContent, pieces,
                   finalCss, log, call, ret, other, cmd>>

\* line 153: writeFile rejects; the file is as it was, or was truncated when
\* it was opened
WriteFail ==
    /\ pc = "writing"
    /\ disk' \in {disk, writeFile(disk, CssPath, <<>>)}
    /\ ioTrace' = Append(ioTrace, [op |-> "writeFile", data |-> fileText(finalCss),
                                   error |-> TRUE])
    /\ pc' = "threw"
    /\ UNCHANGED <<runs, cssContent, importLines, workingContent, pieces,
                   finalCss, log, call, ret, other, cmd>>

NextFaulty ==
    \/ InvokeMissing
    \/ InvokeExisting
    \/ ReadDone
    \/ ReadFail
    \/ WriteDone
    \/ WriteFail

SpecFaulty == Init /\ [][NextFaulty]_vars

Failed(e) == "error" \in DOMAIN e

\* the file-system calls of the invocation in progress or last finished: the
\* trace from its existsSync on
ThisInvocation ==
    LET starts == {i \in 1..Len(ioTrace) : ioTrace[i].op = "existsSync"}
    IN  SubSeq(ioTrace, Max(starts), Len(ioTrace))

OpsOf(calls) == [i \in 1..Len(calls) |-> calls[i].op]

\* C17: an invocation on an existing file reads the file once, then makes one
\* writeFile call with the text it composed; it returns after a write that
\* succeeded, and throws after a read that failed, without a write, or after
\* the one write that failed
C17_IoSequence ==
    (runs > 0 /\ existsSync(CssPath)) =>
        LET calls == ThisInvocation
        IN  /\ pc = "reading" => OpsOf(calls) = <<"existsSync">>
            /\ pc = "writing" =>
                   /\ OpsOf(calls) = <<"existsSync", "readFile">>
                   /\ ~Failed(calls[2])
                   /\ calls[2].data = cssContent
            /\ pc = "returned" =>
                   /\ OpsOf(calls) = <<"existsSync", "readFile", "writeFile">>
                   /\ ~Failed(calls[2]) /\ ~Failed(calls[3])
                   /\ calls[3].data = fileText(finalCss)
                   /\ disk[CssPath] = calls[3].data
            /\ pc = "threw" =>
                   \/ /\ OpsOf(calls) = <<"existsSync", "readFile">>
                      /\ Failed(calls[2])
                   \/ /\ OpsOf(calls) = <<"existsSync", "readFile", "writeFile">>
                      /\ ~Failed(calls[2]) /\ Failed(calls[3])
                      /\ calls[3].data = fileText(finalCss)

\* the second invocation's write failed after the first one succeeded
C17_Witness ==
    /\ pc = "threw"
    /\ runs = 2
    /\ Len(ioTrace) = 6
    /\ Failed(ioTrace[6])
    /\ ioTrace[6].op = "writeFile"
    /\ disk[CssPath] = ioTrace[3].data

-----------------------------------------------------------------------------
\* The init command (commands/init.ts) around injectclyroTheme

\* paths under options.cwd
PackageJsonPath == "package.json"
ClyroJsonPath == "clyro.json"

\* addNecessaryInitFiles, lines 188-197: utils.ts or utils.js, under src/lib
\* when the stylesheet path starts with "src/"
UtilsPath(tsx) == IF tsx THEN "src/lib/utils.ts" ELSE "src/lib/utils.js"

\* the texts written: JSON.stringify(clyroJson, null, 2) and utilsFileCode
ClyroJsonText == <<"{", "}">>
UtilsFileCode == <<"c", "n">>

NoFile == "undefined"

\* what getProjectInfo finds under options.cwd
ProjectInfos ==
    [framework : {"manual", "next"},
     tailwindVersion : {"null", "v3", "v4"},
     tailwindConfigFile : {NoFile, "tailwind.config.js"},
     tailwindCssFile : {NoFile, CssPath},
     isTsx : BOOLEAN,
     aliasPrefix : {NoFile, "@"}]

\* preflight-init.ts 118-123
hasTailwind(projectInfo) ==
    \/ /\ projectInfo.tailwindVersion = "v3"
       /\ projectInfo.tailwindConfigFile # NoFile
       /\ projectInfo.tailwindCssFile # NoFile
    \/ /\ projectInfo.tailwindVersion = "v4"
       /\ projectInfo.tailwindCssFile # NoFile

\* preflight-init.ts 125-145: the errors of checks 5 and 6
preflightErrors(projectInfo) ==
    (IF hasTailwind(projectInfo) THEN {} ELSE {"TAILWIND_NOT_CONFIGURED"})
        \cup (IF projectInfo.isTsx /\ projectInfo.aliasPrefix = NoFile
              THEN {"IMPORT_ALIAS_MISSING"} ELSE {})

PreflightFailed(errors) == [ok |-> FALSE, errors |-> errors]

\* preFlightInit (preflight-init.ts 50-176)
preFlightInit(fs, force, projectInfo) ==
    IF PackageJsonPath \notin DOMAIN fs
    THEN PreflightFailed({"MISSING_DIR_OR_EMPTY_PROJECT"})
    ELSE IF ClyroJsonPath \in DOMAIN fs /\ ~force
    THEN PreflightFailed({"EXISTING_CONFIG"})
    ELSE IF projectInfo.framework = "manual"
    THEN PreflightFailed({"UNSUPPORTED_FRAMEWORK"})
    ELSE IF preflightErrors(projectInfo) # {}
    THEN PreflightFailed(preflightErrors(projectInfo))
    ELSE [ok |-> TRUE, errors |-> {}]

\* the stylesheets of the projects the command is run in
InitStylesheets == {<<>>, FragRoot, FragImportTailwind \o FragRule}

\* The stylesheet path is the one getProjectInfo found under options.cwd, but
\* injectclyroTheme resolves it against the working directory of the process
\* and runs after the install: the file may or may not be there.
InitCmd ==
    /\ \E files \in SUBSET {PackageJsonPath, ClyroJsonPath} :
       \E css \in {DiskWith(t) : t \in InitStylesheets} \cup {EmptyDisk} :
           disk = [p \in files \cup DOMAIN css |->
                      IF p \in DOMAIN css THEN css[p] ELSE ClyroJsonText]
    /\ pc = "idle"
    /\ runs = 0
    /\ cssContent = <<>>
    /\ importLines = <<>>
    /\ workingContent = <<>>
    /\ pieces = <<>>
    /\ finalCss = <<>>
    /\ log = <<>>
    /\ ioTrace = <<>>
    /\ other = NoInvocation
    /\ \E projectInfo \in ProjectInfos :
       \E force \in BOOLEAN :
       \E prompt \in BOOLEAN :
           cmd = [at |-> "preflight", force |-> force, prompt |-> prompt,
                  projectInfo |-> projectInfo, ok |-> FALSE, exitCode |-> -1]
    /\ call = NoCall
    /\ ret = Pending

cmdFrame == <<pc, runs, cssContent, importLines, workingContent, pieces, finalCss,
              call, ret, other>>

\* a variant of CmdPreflightFailed that goes on without exiting
CmdPreflightFailedGoesOn ==
    /\ cmd.at = "preflight"
    /\ ~preFlightInit(disk, cmd.force, cmd.projectInfo).ok
    /\ cmd' = [cmd EXCEPT !.at = "deps"]
    /\ log' = Append(log, "error")
    /\ UNCHANGED <<cmdFrame, disk, ioTrace>>

\* init.ts 102-107: preflight failed, process.exit(1)
CmdPreflightFailed ==
    /\ cmd.at = "preflight"
    /\ ~preFlightInit(disk, cmd.force, cmd.projectInfo).ok
    /\ cmd' = [cmd EXCEPT !.at = "exited", !.exitCode = 1]
    /\ log' = Append(log, "error")
    /\ UNCHANGED <<cmdFrame, disk, ioTrace>>

\* init.ts 102-118: preflight passed; the prompt is shown unless options.yes
\* or options.baseColor is set
CmdPreflightPassed ==
    /\ cmd.at = "preflight"
    /\ preFlightInit(disk, cmd.force, cmd.projectInfo).ok
    /\ cmd' = [cmd EXCEPT !.ok = TRUE, !.at = IF cmd.prompt THEN "prompt" ELSE "deps"]
    /\ log' = Append(log, "info")
    /\ UNCHANGED <<cmdFrame, disk, ioTrace>>

\* init.ts 119-122: the prompt is answered
CmdPromptAnswered ==
    /\ cmd.at = "prompt"
    /\ cmd' = [cmd EXCEPT !.at = "deps"]
    /\ UNCHANGED <<cmdFrame, disk, log, ioTrace>>

\* init.ts 38-43: the prompt is cancelled, process.exit(0)
CmdPromptCancelled ==
    /\ cmd.at = "prompt"
    /\ cmd' = [cmd EXCEPT !.at = "exited", !.exitCode = 0]
    /\ log' = Append(log, "info")
    /\ UNCHANGED <<cmdFrame, disk, ioTrace>>

\* init.ts 135-136 and install-packages.ts 21-65: the package manager runs;
\* its failure is caught and logged
CmdInstallDeps ==
    /\ cmd.at = "deps"
    /\ cmd' = [cmd EXCEPT !.at = "inject"]
    /\ ioTrace' = Append(ioTrace, [op |-> "execa", data |-> <<>>])
    /\ \E installed \in BOOLEAN :
           log' = Append(log, IF installed THEN "info" ELSE "error")
    /\ UNCHANGED <<cmdFrame, disk>>

\* init.ts 144-146: injectclyroTheme is called, once; it finds no file
CmdInjectMissing ==
    /\ cmd.at = "inject"
    /\ runs = 0
    /\ InvokeMissing

\* init.ts 144-146: injectclyroTheme is called, once; it finds the file
CmdInjectExisting ==
    /\ cmd.at = "inject"
    /\ runs = 0
    /\ InvokeExisting

\* init.ts 144-146: injectclyroTheme is awaited while it reads and writes
CmdInjectIo ==
    /\ cmd.at = "inject"
    /\ \/ ReadDone
       \/ WriteDone

\* a variant of CmdInjected that exits when the stylesheet was not found
CmdInjectedExitsOnMissing ==
    /\ cmd.at = "inject"
    /\ runs = 1
    /\ pc = "returned"
    /\ cmd' = IF ~existsSync(CssPath)
              THEN [cmd EXCEPT !.at = "exited", !.exitCode = 1]
              ELSE [cmd EXCEPT !.at = "clyroJson"]
    /\ UNCHANGED <<cmdFrame, disk, log, ioTrace>>

\* init.ts 144-150: injectclyroTheme has returned
CmdInjected ==
    /\ cmd.at = "inject"
    /\ runs = 1
    /\ pc = "returned"
    /\ cmd' = [cmd EXCEPT !.at = "clyroJson"]
    /\ UNCHANGED <<cmdFrame, disk, log, ioTrace>>

\* init.ts 174 and 184-185: clyro.json is written
CmdWriteClyroJson ==
    /\ cmd.at = "clyroJson"
    /\ disk' = writeFile(disk, ClyroJsonPath, ClyroJsonText)
    /\ ioTrace' = Append(ioTrace, [op |-> "writeFile", data |-> ClyroJsonText,
                                   path |-> ClyroJsonPath])
    /\ cmd' = [cmd EXCEPT !.at = "ensureDir"]
    /\ UNCHANGED <<cmdFrame, log>>

\* init.ts 196-200
CmdEnsureDir ==
    /\ cmd.at = "ensureDir"
    /\ ioTrace' = Append(ioTrace, [op |-> "ensureDir", data |-> <<>>])
    /\ cmd' = [cmd EXCEPT !.at = "utils"]
    /\ UNCHANGED <<cmdFrame, disk, log>>

\* init.ts 225-228: the utils file is written
CmdWriteUtils ==
    /\ cmd.at = "utils"
    /\ disk' = writeFile(disk, UtilsPath(cmd.projectInfo.isTsx), UtilsFileCode)
    /\ ioTrace' = Append(ioTrace, [op |-> "writeFile", data |-> UtilsFileCode,
                                   path |-> UtilsPath(cmd.projectInfo.isTsx)])
    /\ log' = Append(log, "info")
    /\ cmd' = [cmd EXCEPT !.at = "files"]
    /\ UNCHANGED cmdFrame

\* init.ts 176-180: the success message
CmdSuccess ==
    /\ cmd.at = "files"
    /\ log' = Append(log, "success")
    /\ cmd' = [cmd EXCEPT !.at = "done"]
    /\ UNCHANGED <<cmdFrame, disk, ioTrace>>

NextCmd ==
    \/ CmdPreflightFailed
    \/ CmdPreflightPassed
    \/ CmdPromptAnswered
    \/ CmdPromptCancelled
    \/ CmdInstallDeps
    \/ CmdInjectMissing
    \/ CmdInjectExisting
    \/ CmdInjectIo
    \/ CmdInjected
    \/ CmdWriteClyroJson
    \/ CmdEnsureDir
    \/ CmdWriteUtils
    \/ CmdSuccess

SpecCmd == InitCmd /\ [][NextCmd]_vars

\* the steps of the command but for the file-system calls of injectclyroTheme
CmdResumes ==
    \/ CmdPreflightFailed
    \/ CmdPreflightPassed
    \/ CmdPromptAnswered
    \/ CmdPromptCancelled
    \/ CmdInstallDeps
    \/ CmdInjectMissing
    \/ CmdInjectExisting
    \/ CmdInjected
    \/ CmdWriteClyroJson
    \/ CmdEnsureDir
    \/ CmdWriteUtils
    \/ CmdSuccess

\* the event loop resumes the command whenever the call it awaits has settled;
\* nothing is assumed about readFile and writeFile on the stylesheet settling
SpecCmdFair == SpecCmd /\ WF_vars(CmdResumes)

-----------------------------------------------------------------------------
\* Properties of the init command

\* a writeFile call of the command on the file at path
WroteFile(path) ==
    \E i \in 1..Len(ioTrace) :
        /\ ioTrace[i].op = "writeFile"
        /\ "path" \in DOMAIN ioTrace[i]
        /\ ioTrace[i].path = path

\* preflight passed and injectclyroTheme is called on a path with no file
InjectOnMissing == cmd.ok /\ cmd.at = "inject" /\ ~existsSync(CssPath)

\* clyro.json and the utils file are written and the success message is out
Succeeded ==
    /\ cmd.at = "done"
    /\ WroteFile(ClyroJsonPath)
    /\ WroteFile(UtilsPath(cmd.projectInfo.isTsx))
    /\ log # <<>> /\ log[Len(log)] = "success"

\* C18: when preflight passed and the stylesheet is missing, the command goes
\* on to write clyro.json and the utils file and to its success message
C18_MissingStylesheetContinues == InjectOnMissing ~> Succeeded

C18_Witness ==
    /\ Succeeded
    /\ ~existsSync(CssPath)
    /\ \E i \in 1..Len(log) : log[i] = "warn"
    /\ OpsOf(ioTrace) = <<"execa", "existsSync", "writeFile", "ensureDir", "writeFile">>

\* the step of the command a call belongs to: 1 install dependencies,
\* 2 inject theme, 3 write clyro.json, 4 write the utils file
StageOf(e) ==
    IF e.op = "execa" THEN 1
    ELSE IF e.op \in {"existsSync", "readFile"} THEN 2
    ELSE IF e.op = "writeFile" /\ "path" \notin DOMAIN e THEN 2
    ELSE IF e.op = "writeFile" /\ e.path = ClyroJsonPath THEN 3
    ELSE 4

StagesDone == {StageOf(ioTrace[i]) : i \in 1..Len(ioTrace)}

\* C20: without a passed preflight the command makes no call at all and its
\* only way on is exit code 1; with one, the calls come in the order install,
\* inject, clyro.json, utils file, none before its predecessor and the install
\* and the clyro.json write once each, and a command that finishes has made
\* all four
C20_PreflightGates ==
    /\ ~cmd.ok =>
           /\ cmd.at \in {"preflight", "exited"}
           /\ cmd.at = "exited" => cmd.exitCode = 1
           /\ ioTrace = <<>>
           /\ pc = "idle"
    /\ cmd.ok =>
           /\ \A i, j \in 1..Len(ioTrace) :
                  i < j => StageOf(ioTrace[i]) <= StageOf(ioTrace[j])
           /\ \A k \in StagesDone : \A h \in 1..k : h \in StagesDone
           /\ \A i, j \in 1..Len(ioTrace) :
                  (StageOf(ioTrace[i]) \in {1, 3} /\ StageOf(ioTrace[i]) = StageOf(ioTrace[j]))
                      => i = j
           /\ cmd.at = "done" => StagesDone = {1, 2, 3, 4}

C20_Witness ==
    /\ cmd.ok
    /\ cmd.at = "done"
    /\ OpsOf(ioTrace) = <<"execa", "existsSync", "readFile", "writeFile",
                          "writeFile", "ensureDir", "writeFile">>
    /\ disk[CssPath] = fileText(finalCss)

-----------------------------------------------------------------------------
\* Two invocations of injectclyroTheme on one path that overlap: the second
\* is called while the first is awaiting readFile or writeFile.  Each readFile
\* and each writeFile is one step.

\* lines 70-151: the text composed from the text read
mergeStylesheet(content) ==
    LET working == stripImports(content)
    IN  composeFinal(collectImports(content), composePieces(working), stripOld(working))

InitOverlap ==
    /\ Init
    /\ existsSync(CssPath)

\* lines 62-68, first invocation
OverlapInvoke ==
    /\ runs = 0
    /\ InvokeExisting

\* lines 62-68, second invocation: the file exists, readFile is awaited
OtherInvoke ==
    /\ pc \in {"reading", "writing"}
    /\ other = NoInvocation
    /\ existsSync(CssPath)
    /\ other' = [pc |-> "reading", finalCss |-> <<>>]
    /\ ioTrace' = Append(ioTrace, [op |-> "existsSync", data |-> <<>>])
    /\ UNCHANGED <<disk, pc, runs, cssContent, importLines, workingContent, pieces,
                   finalCss, log, call, ret, cmd>>

\* lines 68-153, second invocation
OtherReadDone ==
    /\ other.pc = "reading"
    /\ other' = [pc |-> "writing", finalCss |-> mergeStylesheet(disk[CssPath])]
    /\ ioTrace' = Append(ioTrace, [op |-> "readFile", data |-> disk[CssPath]])
    /\ UNCHANGED <<disk, pc, runs, cssContent, importLines, workingContent, pieces,
                   finalCss, log, call, ret, cmd>>

\* lines 153-156, second invocation
OtherWriteDone ==
    /\ other.pc = "writing"
    /\ disk' = writeFile(disk, CssPath, fileText(other.finalCss))
    /\ ioTrace' = Append(ioTrace, [op |-> "writeFile", data |-> fileText(other.finalCss)])
    /\ log' = Append(log, "info")
    /\ other' = [other EXCEPT !.pc = "returned"]
    /\ UNCHANGED <<pc, runs, cssContent, importLines, workingContent, pieces,
                   finalCss, call, ret, cmd>>

NextOverlap ==
    \/ OverlapInvoke
    \/ ReadDone
    \/ WriteDone
    \/ OtherInvoke
    \/ OtherReadDone
    \/ OtherWriteDone

SpecOverlap == InitOverlap /\ [][NextOverlap]_vars

\* the text of the file before either invocation wrote: what the first
\* readFile call returned
OriginalText == SelectSeq(ioTrace, IsRead)[1].data

\* C19: once both overlapping invocations have returned, the file holds what
\* one invocation writes from the original file
C19_OverlapConverges ==
    (pc = "returned" /\ other.pc = "returned") =>
        disk[CssPath] = fileText(mergeStylesheet(OriginalText))

====
